---- MODULE Spec2Model ----
(***************************************************************************)
(* The real-time storage manager of the kitchen (kitchen_system.py):       *)
(* KitchenSystem with its three zones, the order index, the action ledger  *)
(* and the statistics, driven by concurrent callers of place_order,        *)
(* pickup_order, cleanup_expired_orders and get_actions_ledger.            *)
(*                                                                         *)
(* Python objects are modelled by reference: heap[r] is the FoodOrder      *)
(* object r, the zones are lists of references and the index maps an id    *)
(* to a reference, so an object held by a zone and by the index is one     *)
(* object.  FoodOrder.name and KitchenAction.details are opaque labels     *)
(* that no decision reads; they are left out.  Temperature is modelled by  *)
(* its .value, the string the code compares with storage_location.         *)
(* time.time() is the integer clock `now`.                                 *)
(*                                                                         *)
(* Spec is the kitchen under concurrent callers and Ranking the same       *)
(* callers on another full kitchen, Harness and HarnessAnyServer are       *)
(* ExecutionHarness.start with its threads (execution_harness.py), Models  *)
(* is FoodItem and Order (models/), Service is KitchenService              *)
(* (services/kitchen_service.py).                                          *)
(***************************************************************************)
EXTENDS Integers, Sequences, FiniteSets, TLC

VARIABLES heap, cooler, heater, shelf, orders, actions, stats,
          now, pending, ncalls, last, returned

\* The ExecutionHarness that owns the kitchen (execution_harness.py).
VARIABLES server, server_orders, running, start_pc, start_i, pickup_threads,
          cleanup_thread, submitted, exit_status, stop_called, final_swept

harness_vars == <<server, server_orders, running, start_pc, start_i,
                  pickup_threads, cleanup_thread, submitted, exit_status,
                  stop_called, final_swept>>

\* The inventory models (models/food_item.py, models/order.py): the
\* FoodItem objects by id, the items list of one Order, and the last call
\* made on them.
VARIABLES food_items, order_items, model_last

\* KitchenService (services/kitchen_service.py) over the same food items:
\* self.orders, the orders that orders.json holds, and the last call made
\* on the service.
VARIABLES service_orders, orders_file, service_last

service_vars == <<service_orders, orders_file, service_last>>

models_vars == <<food_items, order_items, model_last, service_vars>>

vars == <<heap, cooler, heater, shelf, orders, actions, stats,
          now, pending, ncalls, last, returned, harness_vars, models_vars>>

(* ------------------------------ bounds -------------------------------- *)

\* The clock stops advancing at MaxTime.
MaxTime == 6
\* How far the clock can advance while one call holds the lock.
MaxHold == 1
\* Calls made after the initial fill.
MaxCalls == 2
\* Calls that have read the clock and wait for the lock at the same time.
MaxPending == 2
\* The clock of a harness run stops advancing at MaxRunTime.
MaxRunTime == 3
\* The records of the longest stream the server hands to the harness.
MaxStream == 3
\* The max_quantity of the food items; amounts range a little beyond it.
MaxQuantity == 3
\* Items in the order.
MaxItems == 2
\* Orders the service holds.
MaxOrders == 2

(* ------------------------- program constants -------------------------- *)

CoolerCapacity == 6
HeaterCapacity == 6
ShelfCapacity == 12

\* Temperature.value
Temperatures == {"hot", "cold", "room"}

None == 0

(* ------------------------- FoodOrder.is_fresh ------------------------- *)

\* is_fresh with the expiry instant counted as fresh (<= for <).
is_fresh_inclusive(order, current_time) ==
    LET elapsed_time == current_time - order.stored_at
        ideal_freshness == order.freshness
    IN  IF order.storage_location = order.temperature
        THEN elapsed_time <= ideal_freshness
        ELSE 2 * elapsed_time <= ideal_freshness

\* elapsed_time < ideal_freshness / 2 is true division; over the integers
\* it is 2 * elapsed_time < ideal_freshness.
is_fresh(order, current_time) ==
    LET elapsed_time == current_time - order.stored_at
        ideal_freshness == order.freshness
    IN  IF order.storage_location = order.temperature
        THEN elapsed_time < ideal_freshness
        ELSE 2 * elapsed_time < ideal_freshness

(* --------------------------- KitchenSystem ---------------------------- *)

\* The state after KitchenSystem.__init__.
EmptyKitchen ==
    [heap |-> <<>>, cooler |-> <<>>, heater |-> <<>>, shelf |-> <<>>,
     orders |-> <<>>, actions |-> <<>>,
     stats |-> [orders_placed |-> 0, orders_picked_up |-> 0,
                orders_discarded |-> 0, orders_moved |-> 0]]

\* The FoodOrder object place_order creates.
NewOrder(order_id, temperature, freshness, current_time) ==
    [id |-> order_id, temperature |-> temperature, freshness |-> freshness,
     placed_at |-> current_time, stored_at |-> current_time,
     storage_location |-> ""]

\* _log_action with self.actions.insert(0, action) for the append.
log_action_at_front(K, timestamp, order_id, action_type, target) ==
    [K EXCEPT !.actions = << [timestamp |-> timestamp,
                              order_id |-> order_id,
                              action_type |-> action_type,
                              target |-> target] >> \o @]

\* self.actions.append(action); the line printed to the console is not
\* part of the state.
log_action(K, timestamp, order_id, action_type, target) ==
    [K EXCEPT !.actions = Append(@, [timestamp |-> timestamp,
                                     order_id |-> order_id,
                                     action_type |-> action_type,
                                     target |-> target])]

\* list.pop(i)
Pop(s, i) == [j \in 1..(Len(s) - 1) |-> IF j < i THEN s[j] ELSE s[j + 1]]

\* zone.append(order); order.storage_location = location, for an object
\* that no zone holds yet: the object enters the heap with its location.
AppendNew(K, zone, order, location) ==
    LET r == Len(K.heap) + 1
        H == Append(K.heap, [order EXCEPT !.storage_location = location])
    IN  CASE zone = "cooler" -> [K EXCEPT !.heap = H, !.cooler = Append(@, r)]
          [] zone = "heater" -> [K EXCEPT !.heap = H, !.heater = Append(@, r)]
          [] zone = "shelf"  -> [K EXCEPT !.heap = H, !.shelf = Append(@, r)]

\* try_store_at_ideal_temperature with the capacity tests off by one
\* (<= for <).
try_store_off_by_one(K, order) ==
    IF order.temperature = "cold" /\ Len(K.cooler) <= CoolerCapacity
    THEN [ok |-> TRUE, K |-> AppendNew(K, "cooler", order, "cooler")]
    ELSE IF order.temperature = "hot" /\ Len(K.heater) <= HeaterCapacity
    THEN [ok |-> TRUE, K |-> AppendNew(K, "heater", order, "heater")]
    ELSE IF order.temperature = "room" /\ Len(K.shelf) <= ShelfCapacity
    THEN [ok |-> TRUE, K |-> AppendNew(K, "shelf", order, "shelf")]
    ELSE [ok |-> FALSE, K |-> K]

\* try_store_at_ideal_temperature that stands back when the shelf holds an
\* order of the same HOT or COLD temperature, so that place_order goes on to
\* _try_make_room_and_place with room in the ideal zone.
try_store_after_shelved(K, order) ==
    IF /\ order.temperature \in {"hot", "cold"}
       /\ \E i \in 1..Len(K.shelf) : K.heap[K.shelf[i]].temperature = order.temperature
    THEN [ok |-> FALSE, K |-> K]
    ELSE IF order.temperature = "cold" /\ Len(K.cooler) < CoolerCapacity
    THEN [ok |-> TRUE, K |-> AppendNew(K, "cooler", order, "cooler")]
    ELSE IF order.temperature = "hot" /\ Len(K.heater) < HeaterCapacity
    THEN [ok |-> TRUE, K |-> AppendNew(K, "heater", order, "heater")]
    ELSE IF order.temperature = "room" /\ Len(K.shelf) < ShelfCapacity
    THEN [ok |-> TRUE, K |-> AppendNew(K, "shelf", order, "shelf")]
    ELSE [ok |-> FALSE, K |-> K]

try_store_at_ideal_temperature(K, order) ==
    IF order.temperature = "cold" /\ Len(K.cooler) < CoolerCapacity
    THEN [ok |-> TRUE, K |-> AppendNew(K, "cooler", order, "cooler")]
    ELSE IF order.temperature = "hot" /\ Len(K.heater) < HeaterCapacity
    THEN [ok |-> TRUE, K |-> AppendNew(K, "heater", order, "heater")]
    ELSE IF order.temperature = "room" /\ Len(K.shelf) < ShelfCapacity
    THEN [ok |-> TRUE, K |-> AppendNew(K, "shelf", order, "shelf")]
    ELSE [ok |-> FALSE, K |-> K]

\* The first shelf index holding an order of the given temperature, or None.
FirstOnShelf(K, temperature) ==
    LET I == {i \in 1..Len(K.shelf) : K.heap[K.shelf[i]].temperature = temperature}
    IN  IF I = {} THEN None ELSE CHOOSE i \in I : \A j \in I : i <= j

move_from_shelf_to_cooler(K, current_time) ==
    LET i == FirstOnShelf(K, "cold")
    IN  IF i # None /\ Len(K.cooler) < CoolerCapacity
        THEN LET r == K.shelf[i]
                 K1 == [K EXCEPT !.shelf = Pop(@, i),
                                 !.cooler = Append(@, r),
                                 !.heap[r].storage_location = "cooler",
                                 !.stats.orders_moved = @ + 1]
             IN  [ok |-> TRUE,
                  K |-> log_action(K1, current_time, K.heap[r].id, "move", "cooler")]
        ELSE [ok |-> FALSE, K |-> K]

move_from_shelf_to_heater(K, current_time) ==
    LET i == FirstOnShelf(K, "hot")
    IN  IF i # None /\ Len(K.heater) < HeaterCapacity
        THEN LET r == K.shelf[i]
                 K1 == [K EXCEPT !.shelf = Pop(@, i),
                                 !.heater = Append(@, r),
                                 !.heap[r].storage_location = "heater",
                                 !.stats.orders_moved = @ + 1]
             IN  [ok |-> TRUE,
                  K |-> log_action(K1, current_time, K.heap[r].id, "move", "heater")]
        ELSE [ok |-> FALSE, K |-> K]

\* try_make_room_and_place without its last branch, the direct placement
\* on a shelf that has room.
try_make_room_no_overflow(K, order, t_move) ==
    IF order.temperature = "cold" /\ Len(K.cooler) < CoolerCapacity
    THEN LET m == move_from_shelf_to_cooler(K, t_move)
         IN  IF m.ok /\ Len(m.K.shelf) < ShelfCapacity
             THEN [ok |-> TRUE, K |-> AppendNew(m.K, "shelf", order, "shelf")]
             ELSE [ok |-> FALSE, K |-> m.K]
    ELSE IF order.temperature = "hot" /\ Len(K.heater) < HeaterCapacity
    THEN LET m == move_from_shelf_to_heater(K, t_move)
         IN  IF m.ok /\ Len(m.K.shelf) < ShelfCapacity
             THEN [ok |-> TRUE, K |-> AppendNew(m.K, "shelf", order, "shelf")]
             ELSE [ok |-> FALSE, K |-> m.K]
    ELSE [ok |-> FALSE, K |-> K]

\* if / elif / elif: a branch whose inner test fails falls to `return False`
\* and keeps the move it made.
try_make_room_and_place(K, order, t_move) ==
    IF order.temperature = "cold" /\ Len(K.cooler) < CoolerCapacity
    THEN LET m == move_from_shelf_to_cooler(K, t_move)
         IN  IF m.ok /\ Len(m.K.shelf) < ShelfCapacity
             THEN [ok |-> TRUE, K |-> AppendNew(m.K, "shelf", order, "shelf")]
             ELSE [ok |-> FALSE, K |-> m.K]
    ELSE IF order.temperature = "hot" /\ Len(K.heater) < HeaterCapacity
    THEN LET m == move_from_shelf_to_heater(K, t_move)
         IN  IF m.ok /\ Len(m.K.shelf) < ShelfCapacity
             THEN [ok |-> TRUE, K |-> AppendNew(m.K, "shelf", order, "shelf")]
             ELSE [ok |-> FALSE, K |-> m.K]
    ELSE IF Len(K.shelf) < ShelfCapacity
    THEN [ok |-> TRUE, K |-> AppendNew(K, "shelf", order, "shelf")]
    ELSE [ok |-> FALSE, K |-> K]

\* int(x) of a quotient: truncation toward zero.  For the ages and
\* freshness values of this model the float int(time_ratio * 100) equals the
\* exact truncated quotient.
TruncDiv(a, b) ==
    LET abs(x) == IF x < 0 THEN -x ELSE x
        q == abs(a) \div abs(b)
    IN  IF (a < 0) = (b < 0) THEN q ELSE -q

\* The score _choose_order_to_discard gives one shelf order; the order's
\* freshness is not 0 (see ChooseRaises).
discard_score(order, current_time) ==
    LET elapsed_time == current_time - order.stored_at
        ideal_freshness == order.freshness
        expired == IF ~is_fresh(order, current_time) THEN 1000 ELSE 0
        mismatch == IF order.storage_location # order.temperature THEN 500 ELSE 0
        ratio100 == IF order.storage_location = order.temperature
                    THEN TruncDiv(elapsed_time * 100, ideal_freshness)
                    ELSE TruncDiv(elapsed_time * 2 * 100, ideal_freshness)
    IN  expired + mismatch + ratio100

\* elapsed_time / ideal_freshness raises ZeroDivisionError for a shelf order
\* of freshness 0; the loop has changed nothing by then.
ChooseRaises(K) ==
    \E i \in 1..Len(K.shelf) : K.heap[K.shelf[i]].freshness = 0

\* The first index of the highest score (score > best_discard_score is
\* strict), None on an empty shelf.
choose_order_to_discard(K, current_time) ==
    LET I == 1..Len(K.shelf)
        score == [i \in I |-> discard_score(K.heap[K.shelf[i]], current_time)]
    IN  IF I = {} THEN None
        ELSE CHOOSE i \in I : /\ \A j \in I : score[j] <= score[i]
                              /\ \A j \in I : j < i => score[j] < score[i]

\* t_choose is the clock _choose_order_to_discard reads, t_discard the one
\* _discard_and_place reads after it.
discard_and_place(K, order, t_choose, t_discard) ==
    IF Len(K.shelf) >= ShelfCapacity
    THEN IF ChooseRaises(K)
         THEN [ok |-> FALSE, raised |-> TRUE, K |-> K]
         ELSE LET discard_index == choose_order_to_discard(K, t_choose)
              IN  IF discard_index # None
                  THEN LET r == K.shelf[discard_index]
                           K1 == [K EXCEPT !.shelf = Pop(@, discard_index)]
                           K2 == log_action(K1, t_discard, K.heap[r].id, "discard", "shelf")
                           K3 == [K2 EXCEPT !.stats.orders_discarded = @ + 1]
                       IN  [ok |-> TRUE, raised |-> FALSE,
                            K |-> AppendNew(K3, "shelf", order, "shelf")]
                  ELSE [ok |-> FALSE, raised |-> FALSE, K |-> K]
    ELSE [ok |-> FALSE, raised |-> FALSE, K |-> K]

\* self.orders[order_id] = order
IndexPut(idx, order_id, r) ==
    [k \in (DOMAIN idx) \cup {order_id} |-> IF k = order_id THEN r ELSE idx[k]]

\* del self.orders[order_id]
IndexDel(idx, order_id) == [k \in (DOMAIN idx) \ {order_id} |-> idx[k]]

\* The tail shared by the three successful branches of place_order: the
\* PLACE entry, the index entry and the counter.  The new order is the last
\* object of the heap.
Admit(K, order_id, current_time) ==
    LET r == Len(K.heap)
        K1 == log_action(K, current_time, order_id, "place", K.heap[r].storage_location)
    IN  [K1 EXCEPT !.orders = IndexPut(@, order_id, r),
                   !.stats.orders_placed = @ + 1]

\* The body of place_order under the lock.  current_time was read before
\* the lock was taken; t_choose <= t_discard are the clock readings made
\* inside.  result is "True", "False" or the exception that escapes.
place_order(K, order_id, temperature, freshness, current_time, t_choose, t_discard) ==
    LET order == NewOrder(order_id, temperature, freshness, current_time)
        a == try_store_at_ideal_temperature(K, order)
        b == try_make_room_and_place(K, order, t_choose)
        c == discard_and_place(b.K, order, t_choose, t_discard)
    IN  IF a.ok THEN [result |-> "True", K |-> Admit(a.K, order_id, current_time)]
        ELSE IF b.ok THEN [result |-> "True", K |-> Admit(b.K, order_id, current_time)]
        ELSE IF c.raised THEN [result |-> "ZeroDivisionError", K |-> c.K]
        ELSE IF c.ok THEN [result |-> "True", K |-> Admit(c.K, order_id, current_time)]
        ELSE [result |-> "False", K |-> c.K]

\* _remove_order_from_storage rebuilding no list: the zone keeps the order.
remove_order_keeps(K, order) == K

\* [o for o in zone if o.id != order.id] on the zone order.storage_location names.
remove_order_from_storage(K, order) ==
    LET Keep(r) == K.heap[r].id # order.id
    IN  CASE order.storage_location = "cooler" -> [K EXCEPT !.cooler = SelectSeq(@, Keep)]
          [] order.storage_location = "heater" -> [K EXCEPT !.heater = SelectSeq(@, Keep)]
          [] order.storage_location = "shelf"  -> [K EXCEPT !.shelf = SelectSeq(@, Keep)]
          [] OTHER -> K

\* The body of pickup_order under the lock.  result is "Order" (the order
\* is returned) or "None".
pickup_order(K, order_id, current_time) ==
    IF order_id \notin DOMAIN K.orders
    THEN [result |-> "None", K |-> K]
    ELSE LET order == K.heap[K.orders[order_id]]
             K1 == remove_order_from_storage(K, order)
         IN  IF ~is_fresh(order, current_time)
             THEN LET K2 == log_action(K1, current_time, order_id, "discard",
                                       order.storage_location)
                  IN  [result |-> "None",
                       K |-> [K2 EXCEPT !.stats.orders_discarded = @ + 1,
                                        !.orders = IndexDel(@, order_id)]]
             ELSE LET K2 == log_action(K1, current_time, order_id, "pickup",
                                       order.storage_location)
                  IN  [result |-> "Order",
                       K |-> [K2 EXCEPT !.stats.orders_picked_up = @ + 1,
                                        !.orders = IndexDel(@, order_id)]]

\* list.remove(order): the first element equal to it (dataclass equality
\* compares the fields).
RemoveFirstEqual(s, H, r) ==
    LET I == {i \in 1..Len(s) : H[s[i]] = H[r]}
    IN  IF I = {} THEN s ELSE Pop(s, CHOOSE i \in I : \A j \in I : i <= j)

\* One of the three loops of cleanup_expired_orders, over the list
\* `expired` computed before the loop.
RECURSIVE SweepZone(_, _, _, _)
SweepZone(K, zone, expired, current_time) ==
    IF expired = <<>> THEN K
    ELSE LET r == Head(expired)
             K1 == CASE zone = "cooler" -> [K EXCEPT !.cooler = RemoveFirstEqual(@, K.heap, r)]
                     [] zone = "heater" -> [K EXCEPT !.heater = RemoveFirstEqual(@, K.heap, r)]
                     [] zone = "shelf"  -> [K EXCEPT !.shelf = RemoveFirstEqual(@, K.heap, r)]
             K2 == log_action(K1, current_time, K.heap[r].id, "discard", zone)
             K3 == [K2 EXCEPT !.stats.orders_discarded = @ + 1,
                              !.orders = IF K.heap[r].id \in DOMAIN @
                                         THEN IndexDel(@, K.heap[r].id) ELSE @]
         IN  SweepZone(K3, zone, Tail(expired), current_time)

\* The body of cleanup_expired_orders under the lock.
cleanup_expired_orders(K, current_time) ==
    LET Expired(r) == ~is_fresh(K.heap[r], current_time)
        K1 == SweepZone(K, "cooler", SelectSeq(K.cooler, Expired), current_time)
        K2 == SweepZone(K1, "heater", SelectSeq(K1.heater, Expired), current_time)
    IN  SweepZone(K2, "shelf", SelectSeq(K2.shelf, Expired), current_time)

\* A list in the hands of a caller: `shared` tells whether it is the list
\* object self.actions itself, which later appends change, or a list of its
\* own with the items it had when it was made.

\* get_actions_ledger returning self.actions without the copy.
get_actions_ledger_shared(K) ==
    [held |-> TRUE, shared |-> TRUE, items |-> K.actions]

\* return self.actions.copy()
get_actions_ledger(K) ==
    [held |-> TRUE, shared |-> FALSE, items |-> K.actions]

(* ------------------------- the initial fill --------------------------- *)

\* place_order called for each descriptor of `descs` in turn, at clock 0.
RECURSIVE Fill(_, _)
Fill(K, descs) ==
    IF descs = <<>> THEN K
    ELSE LET d == Head(descs)
             Placed == {place_order(K, d.id, d.temperature, d.freshness, 0, 0, 0).K}
         IN  CHOOSE R \in {Fill(K1, Tail(descs)) : K1 \in Placed} : TRUE

Desc(id, temperature, freshness) ==
    [id |-> id, temperature |-> temperature, freshness |-> freshness]

SixHot ==
    << Desc("h1", "hot", 10), Desc("h2", "hot", 4), Desc("h3", "hot", 10),
       Desc("h4", "hot", 10), Desc("h5", "hot", 10), Desc("h6", "hot", 10) >>

SixCold ==
    << Desc("c1", "cold", 10), Desc("c2", "cold", 4), Desc("c3", "cold", 10),
       Desc("c4", "cold", 10), Desc("c5", "cold", 10), Desc("c6", "cold", 10) >>

\* Twelve orders that all end on the shelf once heater and cooler are full;
\* their ids are not in placement order.
TwelveShelf ==
    << Desc("s02", "hot", 4),   Desc("s01", "cold", 4),  Desc("s03", "room", 10),
       Desc("s04", "hot", 10),  Desc("s05", "cold", 10), Desc("s06", "room", 10),
       Desc("s07", "hot", 10),  Desc("s08", "cold", 10), Desc("s09", "room", 10),
       Desc("s10", "hot", 10),  Desc("s11", "cold", 10), Desc("s12", "room", 10) >>

\* Twelve shelf orders led by a ROOM order whose freshness is shorter than
\* that of the HOT and COLD orders behind it.
TwelveMixed ==
    << Desc("s01", "room", 4),  Desc("s02", "hot", 6),   Desc("s03", "cold", 10),
       Desc("s04", "room", 10), Desc("s05", "hot", 10),  Desc("s06", "cold", 10),
       Desc("s07", "room", 10), Desc("s08", "hot", 10),  Desc("s09", "cold", 10),
       Desc("s10", "room", 10), Desc("s11", "hot", 10),  Desc("s12", "cold", 10) >>

\* A seventh HOT order, which finds the heater full.
OneShelved == << Desc("h7", "hot", 10) >>

\* The order streams placed before the concurrent callers start: none,
\* heater full with one HOT order on the shelf, heater and cooler full with
\* the shelf empty, and every zone full.
Scenarios ==
    { <<>>, SixHot \o OneShelved, SixHot \o SixCold,
      SixHot \o SixCold \o TwelveShelf }

(* ------------------------------ inputs -------------------------------- *)

\* The ids of new orders, in the order the callers use them.
NewIds == <<"n1", "n2">>
PickupIds == {"n1", "h1", "s02"}
FreshnessValues == {-2, 0, 10}

(* --------------------------- state machine ---------------------------- *)

\* `now` is the latest reading of time.time(); a later reading is never
\* smaller.  `pending` holds the calls that have read the clock and wait for
\* self.lock.  `last` records the call that released the lock last, among
\* place_order, pickup_order and cleanup_expired_orders: its arguments, what
\* it returned, and the kitchen as it found it.  `returned` is the list that
\* the latest get_actions_ledger gave to its caller.

Self ==
    [heap |-> heap, cooler |-> cooler, heater |-> heater, shelf |-> shelf,
     orders |-> orders, actions |-> actions, stats |-> stats]

Become(K) ==
    /\ heap' = K.heap
    /\ cooler' = K.cooler
    /\ heater' = K.heater
    /\ shelf' = K.shelf
    /\ orders' = K.orders
    /\ actions' = K.actions
    /\ stats' = K.stats

NoCall ==
    [op |-> "none", order_id |-> "", temperature |-> "", freshness |-> 0,
     current_time |-> 0]

\* ExecutionHarness.__init__, for a harness whose self.server is of the
\* given kind and will hand out the records `records`; no start() has been
\* called.
Constructed(kind, records) ==
    /\ server = kind
    /\ server_orders = records
    /\ running = FALSE
    /\ start_pc = "new"
    /\ start_i = 1
    /\ pickup_threads = <<>>
    /\ cleanup_thread = [state |-> "none", wake_at |-> 0]
    /\ submitted = <<>>
    /\ exit_status = "none"
    /\ stop_called = FALSE
    /\ final_swept = FALSE

\* No FoodItem and no Order has been constructed.
NoModelCall ==
    [op |-> "none", food_item |-> "", amount |-> [nan |-> FALSE, v |-> 0],
     raised |-> FALSE, result |-> "", pre |-> <<>>]

\* No call has been made on the service.
NoServiceCall ==
    [op |-> "none", order |-> 0, new_status |-> "", raised |-> FALSE,
     result |-> "", pre_orders |-> <<>>, pre_inventory |-> <<>>]

\* KitchenService.__init__ with an empty data directory.
NoService ==
    /\ service_orders = <<>>
    /\ orders_file = <<>>
    /\ service_last = NoServiceCall

NoModels ==
    /\ food_items = <<>>
    /\ order_items = <<>>
    /\ model_last = NoModelCall
    /\ NoService

\* The kitchen after one of the streams `scenarios` has been placed, with
\* no caller under way.
InitWith(scenarios) ==
    \E sc \in scenarios :
        LET K == Fill(EmptyKitchen, sc)
        IN  /\ heap = K.heap
            /\ cooler = K.cooler
            /\ heater = K.heater
            /\ shelf = K.shelf
            /\ orders = K.orders
            /\ actions = K.actions
            /\ stats = K.stats
            /\ now = 0
            /\ pending = {}
            /\ ncalls = 0
            /\ last = [call |-> NoCall, result |-> "", pre |-> K]
            /\ returned = [held |-> FALSE, shared |-> FALSE, items |-> <<>>]
            /\ Constructed("MockChallengeServer", <<>>)
            /\ NoModels

Init == InitWith(Scenarios)

\* Every zone full, the shelf led by the ROOM order of short freshness.
RankingInit == InitWith({SixHot \o SixCold \o TwelveMixed})

\* A thread enters an operation: it reads the clock (current_time =
\* time.time()) and then waits for self.lock.
Enter(op, order_id, temperature, freshness) ==
    \E t \in now..MaxTime :
        LET c == [op |-> op, order_id |-> order_id, temperature |-> temperature,
                  freshness |-> freshness, current_time |-> t]
        IN  /\ ncalls < MaxCalls
            /\ Cardinality(pending) < MaxPending
            /\ c \notin pending
            /\ ncalls' = ncalls + 1
            /\ pending' = pending \cup {c}
            /\ now' = t
            /\ UNCHANGED <<heap, cooler, heater, shelf, orders, actions, stats, last,
                           returned, harness_vars, models_vars>>

\* The ids a place_order call may carry: an id of NewIds already used (it
\* may still be stored) or the first one not used yet.
Used(id) ==
    \/ \E r \in 1..Len(heap) : heap[r].id = id
    \/ \E c \in pending : c.op = "place_order" /\ c.order_id = id

PlaceIds ==
    {NewIds[i] : i \in {i \in 1..Len(NewIds) : \A j \in 1..(i - 1) : Used(NewIds[j])}}

CallPlace ==
    \E order_id \in PlaceIds, temperature \in Temperatures,
       freshness \in FreshnessValues :
        Enter("place_order", order_id, temperature, freshness)

CallPickup ==
    \E order_id \in PickupIds : Enter("pickup_order", order_id, "", 0)

CallCleanup == Enter("cleanup_expired_orders", "", "", 0)

\* The call c leaves the lock with the kitchen res.K and the result res.result.
Finish(c, res) ==
    /\ Become(res.K)
    /\ pending' = pending \ {c}
    /\ last' = [call |-> c, result |-> res.result, pre |-> Self]
    /\ UNCHANGED <<ncalls, returned, harness_vars, models_vars>>

\* Whether this place_order reaches _choose_order_to_discard, which reads
\* the clock again.
ReadsClock(K, order) ==
    LET a == try_store_at_ideal_temperature(K, order)
        b == try_make_room_and_place(K, order, 0)
    IN  ~a.ok /\ ~b.ok /\ Len(b.K.shelf) >= ShelfCapacity

\* A waiting place_order gets the lock and runs to its return.  The clock
\* may advance between the readings made inside the call.
RunPlace ==
    \E c \in pending :
        /\ c.op = "place_order"
        /\ LET top == IF now + MaxHold < MaxTime THEN now + MaxHold ELSE MaxTime
               again == ReadsClock(Self, NewOrder(c.order_id, c.temperature,
                                                  c.freshness, c.current_time))
           IN  \E t_choose \in now..top : \E t_discard \in t_choose..top :
                   /\ again \/ t_discard = now
                   /\ now' = t_discard
                   /\ \E res \in {place_order(Self, c.order_id, c.temperature,
                                               c.freshness, c.current_time,
                                               t_choose, t_discard)} :
                          Finish(c, res)

RunPickup ==
    \E c \in pending :
        /\ c.op = "pickup_order"
        /\ \E res \in {pickup_order(Self, c.order_id, c.current_time)} :
               Finish(c, res)
        /\ UNCHANGED now

RunCleanup ==
    \E c \in pending :
        /\ c.op = "cleanup_expired_orders"
        /\ \E K \in {cleanup_expired_orders(Self, c.current_time)} :
               Finish(c, [result |-> "None", K |-> K])
        /\ UNCHANGED now

\* A caller takes the lock and gets the list that get_actions_ledger
\* returns; the call reads no clock.
GetLedger ==
    /\ ncalls < MaxCalls
    /\ ncalls' = ncalls + 1
    /\ returned' = get_actions_ledger(Self)
    /\ UNCHANGED <<heap, cooler, heater, shelf, orders, actions, stats,
                   now, pending, last, harness_vars, models_vars>>

Next ==
    \/ CallPlace
    \/ CallPickup
    \/ CallCleanup
    \/ RunPlace
    \/ RunPickup
    \/ RunCleanup
    \/ GetLedger

Spec == Init /\ [][Next]_vars

\* The same callers, on the kitchen of RankingInit.
Ranking == RankingInit /\ [][Next]_vars

(* ------------------------- ExecutionHarness --------------------------- *)

\* The harness threads: the caller of start(), one pickup thread per
\* admitted order, the cleanup thread, and a caller of stop().  A thread
\* takes a step where it calls into the kitchen or the server, or reads
\* self.running.  time.sleep(d) returns once the clock has advanced by d;
\* the sleep between two placements (1 / rate) is shorter than one tick of
\* the clock.  pending_pickups is written and never read for a decision; it
\* is left out.  `stop_called` and `final_swept` record what has happened:
\* that stop() was called, that _final_cleanup has run.

\* What MockChallengeServer.get_orders may hand out: records with ids of
\* their own, a temperature among hot, cold and room, a positive freshness.
MockStreams ==
    { << Desc("a", "hot", 10), Desc("b", "cold", 2) >>,
      << Desc("a", "room", 2), Desc("b", "hot", 10) >> }

\* What another server may hand out as well: a record with an unknown
\* temperature, a repeated id, a freshness of zero.
Streams ==
    MockStreams
    \cup { << Desc("a", "hot", 10), Desc("x", "warm", 10), Desc("b", "cold", 2) >>,
           << Desc("a", "hot", 10), Desc("a", "cold", 0) >> }

\* The values random.uniform(self.pickup_min, self.pickup_max) may draw.
Delays == {0, 2}

\* How a call of server.submit_actions may end: MockChallengeServer returns
\* a result whose status is success; another server may return another
\* status, or raise.
SubmitOutcomes ==
    IF server = "MockChallengeServer" THEN {"success"}
    ELSE {"success", "rejected", "error"}

\* time.sleep that was to end at wake_at has returned (the clock stops at
\* MaxRunTime).
Woke(wake_at) == now >= wake_at \/ now = MaxRunTime

\* The scheduling of a pickup with the thread started and appended twice.
schedule_pickup_twice(threads, order_id, pickup_delay) ==
    threads \o << [order_id |-> order_id, wake_at |-> now + pickup_delay,
                   state |-> "sleeping", called |-> FALSE],
                  [order_id |-> order_id, wake_at |-> now + pickup_delay,
                   state |-> "sleeping", called |-> FALSE] >>

\* threading.Thread(target=self._pickup_worker, args=(id, delay)).start()
\* and self.pickup_threads.append(pickup_thread)
schedule_pickup(threads, order_id, pickup_delay) ==
    Append(threads, [order_id |-> order_id, wake_at |-> now + pickup_delay,
                     state |-> "sleeping", called |-> FALSE])

\* Variant of all_joined: start() does not wait for the pickup threads.
all_joined_none(threads) == TRUE

\* for thread in self.pickup_threads: thread.join() has returned.
all_joined(threads) ==
    \A k \in 1..Len(threads) : threads[k].state = "finished"

KitchenCallsUnchanged == UNCHANGED <<pending, ncalls, last>>

KitchenUnchanged ==
    UNCHANGED <<heap, cooler, heater, shelf, orders, actions, stats>>

\* A harness as constructed, whose server hands out one of `streams`.
HarnessWith(kind, streams) ==
    /\ heap = EmptyKitchen.heap
    /\ cooler = EmptyKitchen.cooler
    /\ heater = EmptyKitchen.heater
    /\ shelf = EmptyKitchen.shelf
    /\ orders = EmptyKitchen.orders
    /\ actions = EmptyKitchen.actions
    /\ stats = EmptyKitchen.stats
    /\ now = 0
    /\ pending = {}
    /\ ncalls = 0
    /\ last = [call |-> NoCall, result |-> "", pre |-> EmptyKitchen]
    /\ returned = [held |-> FALSE, shared |-> FALSE, items |-> <<>>]
    /\ \E records \in {r \in streams : Len(r) <= MaxStream} :
          Constructed(kind, records)
    /\ NoModels

HarnessInit == HarnessWith("MockChallengeServer", MockStreams)

\* self.server replaced by another implementation of the server.
AnyServerInit == HarnessWith("other", Streams)

\* start(), up to the placement loop: the flag, the cleanup thread, the
\* orders of the server.
Start ==
    /\ start_pc = "new"
    /\ running' = TRUE
    /\ cleanup_thread' = [state |-> "testing", wake_at |-> 0]
    /\ start_pc' = "loop"
    /\ KitchenUnchanged
    /\ KitchenCallsUnchanged
    /\ UNCHANGED models_vars
    /\ UNCHANGED <<now, returned, server, server_orders, start_i, pickup_threads,
                   submitted, exit_status, stop_called, final_swept>>

\* One iteration of the placement loop.  Temperature(...) raises ValueError
\* for a value that is no member of the enumeration; the exception and the
\* one place_order may raise leave start() and make main() return 1.
PlaceNext ==
    /\ start_pc = "loop"
    /\ start_i <= Len(server_orders)
    /\ running
    /\ LET order_data == server_orders[start_i]
       IN  IF order_data.temperature \notin Temperatures
           THEN /\ start_pc' = "raised"
                /\ exit_status' = "1"
                /\ KitchenUnchanged
                /\ UNCHANGED <<start_i, pickup_threads>>
           ELSE \E res \in {place_order(Self, order_data.id, order_data.temperature,
                                        order_data.freshness, now, now, now)} :
                    /\ Become(res.K)
                    /\ IF res.result = "True"
                       THEN /\ \E pickup_delay \in Delays :
                                  pickup_threads' = schedule_pickup(pickup_threads,
                                                                    order_data.id,
                                                                    pickup_delay)
                            /\ start_i' = start_i + 1
                            /\ UNCHANGED <<start_pc, exit_status>>
                       ELSE IF res.result = "False"
                       THEN /\ start_i' = start_i + 1
                            /\ UNCHANGED <<start_pc, exit_status, pickup_threads>>
                       ELSE /\ start_pc' = "raised"
                            /\ exit_status' = "1"
                            /\ UNCHANGED <<start_i, pickup_threads>>
    /\ KitchenCallsUnchanged
    /\ UNCHANGED models_vars
    /\ UNCHANGED <<now, returned, server, server_orders, running, cleanup_thread,
                   submitted, stop_called, final_swept>>

\* The loop ends: the orders are exhausted, or self.running is False.
LoopExit ==
    /\ start_pc = "loop"
    /\ start_i > Len(server_orders) \/ ~running
    /\ start_pc' = "join"
    /\ KitchenUnchanged
    /\ KitchenCallsUnchanged
    /\ UNCHANGED models_vars
    /\ UNCHANGED <<now, returned, server, server_orders, running, start_i, pickup_threads,
                   cleanup_thread, submitted, exit_status, stop_called, final_swept>>

Join ==
    /\ start_pc = "join"
    /\ all_joined(pickup_threads)
    /\ start_pc' = "final_cleanup"
    /\ KitchenUnchanged
    /\ KitchenCallsUnchanged
    /\ UNCHANGED models_vars
    /\ UNCHANGED <<now, returned, server, server_orders, running, start_i, pickup_threads,
                   cleanup_thread, submitted, exit_status, stop_called, final_swept>>

\* _final_cleanup
FinalCleanup ==
    /\ start_pc = "final_cleanup"
    /\ \E K \in {cleanup_expired_orders(Self, now)} : Become(K)
    /\ final_swept' = TRUE
    /\ start_pc' = "submit"
    /\ KitchenCallsUnchanged
    /\ UNCHANGED models_vars
    /\ UNCHANGED <<now, returned, server, server_orders, running, start_i, pickup_threads,
                   cleanup_thread, submitted, exit_status, stop_called>>

\* _submit_results and the return of start() and main(): one call of
\* get_actions_ledger, one call of server.submit_actions whose result is
\* returned unread.
SubmitResults ==
    /\ start_pc = "submit"
    /\ returned' = get_actions_ledger(Self)
    /\ \E outcome \in SubmitOutcomes :
          /\ submitted' = Append(submitted, [actions |-> actions, outcome |-> outcome])
          /\ IF outcome = "error"
             THEN start_pc' = "raised" /\ exit_status' = "1"
             ELSE start_pc' = "done" /\ exit_status' = "0"
    /\ KitchenUnchanged
    /\ KitchenCallsUnchanged
    /\ UNCHANGED models_vars
    /\ UNCHANGED <<now, server, server_orders, running, start_i, pickup_threads,
                   cleanup_thread, stop_called, final_swept>>

\* _pickup_worker of thread k, from the return of its sleep to its end.
PickupWorker(k) ==
    /\ k \in 1..Len(pickup_threads)
    /\ pickup_threads[k].state = "sleeping"
    /\ Woke(pickup_threads[k].wake_at)
    /\ IF ~running
       THEN /\ pickup_threads' = [pickup_threads EXCEPT ![k].state = "finished"]
            /\ KitchenUnchanged
       ELSE /\ \E res \in {pickup_order(Self, pickup_threads[k].order_id, now)} :
                  Become(res.K)
            /\ pickup_threads' = [pickup_threads EXCEPT ![k].state = "finished",
                                                        ![k].called = TRUE]
    /\ KitchenCallsUnchanged
    /\ UNCHANGED models_vars
    /\ UNCHANGED <<now, returned, server, server_orders, running, start_pc, start_i,
                   cleanup_thread, submitted, exit_status, stop_called, final_swept>>

\* _cleanup_worker at `while self.running`.
CleanupWorkerTest ==
    /\ cleanup_thread.state = "testing"
    /\ cleanup_thread' = IF running
                         THEN [state |-> "sleeping", wake_at |-> now + 1]
                         ELSE [state |-> "exited", wake_at |-> 0]
    /\ KitchenUnchanged
    /\ KitchenCallsUnchanged
    /\ UNCHANGED models_vars
    /\ UNCHANGED <<now, returned, server, server_orders, running, start_pc, start_i,
                   pickup_threads, submitted, exit_status, stop_called, final_swept>>

\* _cleanup_worker after time.sleep(1.0).
CleanupWorkerSweep ==
    /\ cleanup_thread.state = "sleeping"
    /\ Woke(cleanup_thread.wake_at)
    /\ \E K \in {cleanup_expired_orders(Self, now)} : Become(K)
    /\ cleanup_thread' = [state |-> "testing", wake_at |-> 0]
    /\ KitchenCallsUnchanged
    /\ UNCHANGED models_vars
    /\ UNCHANGED <<now, returned, server, server_orders, running, start_pc, start_i,
                   pickup_threads, submitted, exit_status, stop_called, final_swept>>

\* stop(), called by another thread once start() is under way.
Stop ==
    /\ start_pc # "new"
    /\ running
    /\ running' = FALSE
    /\ stop_called' = TRUE
    /\ KitchenUnchanged
    /\ KitchenCallsUnchanged
    /\ UNCHANGED models_vars
    /\ UNCHANGED <<now, returned, server, server_orders, start_pc, start_i, pickup_threads,
                   cleanup_thread, submitted, exit_status, final_swept>>

Tick ==
    /\ now < MaxRunTime
    /\ now' = now + 1
    /\ KitchenUnchanged
    /\ KitchenCallsUnchanged
    /\ UNCHANGED models_vars
    /\ UNCHANGED <<returned, harness_vars>>

StartThread == Start \/ PlaceNext \/ LoopExit \/ Join \/ FinalCleanup \/ SubmitResults

HarnessNext ==
    \/ Start
    \/ PlaceNext
    \/ LoopExit
    \/ Join
    \/ FinalCleanup
    \/ SubmitResults
    \/ \E k \in 1..Len(pickup_threads) : PickupWorker(k)
    \/ CleanupWorkerTest
    \/ CleanupWorkerSweep
    \/ Stop
    \/ Tick

\* The threads are scheduled fairly and the clock advances; nothing obliges
\* anyone to call stop().
Fairness ==
    /\ WF_vars(StartThread)
    /\ \A k \in 1..MaxStream : WF_vars(PickupWorker(k))
    /\ WF_vars(CleanupWorkerTest \/ CleanupWorkerSweep)
    /\ WF_vars(Tick)

\* The harness as main() builds it.
Harness == HarnessInit /\ [][HarnessNext]_vars /\ Fairness

\* The harness with any server behind self.server.
HarnessAnyServer == AnyServerInit /\ [][HarnessNext]_vars /\ Fairness

(* ------------------------- FoodItem and Order ------------------------- *)

\* A Python float: a number, or nan.  Every comparison with nan is False
\* and every sum or difference with nan is nan.
Num(n) == [nan |-> FALSE, v |-> n]

NaN == [nan |-> TRUE, v |-> 0]

\* x < y
Lt(x, y) == ~x.nan /\ ~y.nan /\ x.v < y.v

\* x > y
Gt(x, y) == ~x.nan /\ ~y.nan /\ x.v > y.v

\* x >= y
Ge(x, y) == ~x.nan /\ ~y.nan /\ x.v >= y.v

\* x + y
Plus(x, y) == IF x.nan \/ y.nan THEN NaN ELSE Num(x.v + y.v)

\* x - y
Minus(x, y) == IF x.nan \/ y.nan THEN NaN ELSE Num(x.v - y.v)

\* The fields of a FoodItem that the quantity operations read or write.
FoodItem(current_quantity, max_quantity) ==
    [current_quantity |-> current_quantity, max_quantity |-> max_quantity,
     last_updated |-> 0]

\* raise ValueError: the object is as it was.
Raised(item) == [raised |-> TRUE, item |-> item]

\* FoodItem.update_quantity at clock reading t.
update_quantity(item, new_quantity, t) ==
    IF Lt(new_quantity, Num(0))
    THEN Raised(item)
    ELSE [raised |-> FALSE,
          item |-> [item EXCEPT !.current_quantity = new_quantity,
                                !.last_updated = t]]

\* FoodItem.consume_quantity
consume_quantity(item, amount, t) ==
    IF Lt(amount, Num(0)) THEN Raised(item)
    ELSE IF Gt(amount, item.current_quantity) THEN Raised(item)
    ELSE update_quantity(item, Minus(item.current_quantity, amount), t)

\* FoodItem.add_quantity
add_quantity(item, amount, t) ==
    IF Lt(amount, Num(0)) THEN Raised(item)
    ELSE LET new_quantity == Plus(item.current_quantity, amount)
         IN  IF Gt(new_quantity, item.max_quantity) THEN Raised(item)
             ELSE update_quantity(item, new_quantity, t)

\* OrderItem(food_item, quantity); food_item is a reference to a FoodItem.
OrderItem(food_item, quantity) == [food_item |-> food_item, quantity |-> quantity]

\* Order.can_be_prepared, the loop from item i on.
RECURSIVE can_be_prepared_from(_, _, _)
can_be_prepared_from(items, food, i) ==
    IF i > Len(items) THEN TRUE
    ELSE IF Lt(food[items[i].food_item].current_quantity, items[i].quantity)
         THEN FALSE
         ELSE can_be_prepared_from(items, food, i + 1)

\* Order.can_be_prepared
can_be_prepared(items, food) == can_be_prepared_from(items, food, 1)

\* Order.remove_item: the first item of the food item is popped.
remove_item(items, food_item_id) ==
    LET hits == {i \in 1..Len(items) : items[i].food_item = food_item_id}
    IN  IF hits = {} THEN [result |-> "False", items |-> items]
        ELSE LET i == CHOOSE h \in hits : \A g \in hits : h <= g
             IN  [result |-> "True",
                  items |-> SubSeq(items, 1, i - 1) \o SubSeq(items, i + 1, Len(items))]

FoodIds == {"f1", "f2"}

\* The amounts passed to the quantity operations.
Amounts == {Num(n) : n \in (0 - 1)..(MaxQuantity + 1)} \cup {NaN}

\* The quantities ordered.
OrderQuantities == {Num(1), Num(MaxQuantity)}

\* Two food items below their max_quantity and an order without items, as
\* the fixtures of test_food_item.py and test_order.py build them.
ModelsInit ==
    /\ heap = EmptyKitchen.heap
    /\ cooler = EmptyKitchen.cooler
    /\ heater = EmptyKitchen.heater
    /\ shelf = EmptyKitchen.shelf
    /\ orders = EmptyKitchen.orders
    /\ actions = EmptyKitchen.actions
    /\ stats = EmptyKitchen.stats
    /\ now = 0
    /\ pending = {}
    /\ ncalls = 0
    /\ last = [call |-> NoCall, result |-> "", pre |-> EmptyKitchen]
    /\ returned = [held |-> FALSE, shared |-> FALSE, items |-> <<>>]
    /\ Constructed("MockChallengeServer", <<>>)
    /\ food_items \in [FoodIds -> {FoodItem(Num(q), Num(MaxQuantity)) : q \in {1, 2}}]
    /\ order_items = <<>>
    /\ model_last = NoModelCall
    /\ NoService

ProgramUnchanged ==
    UNCHANGED <<heap, cooler, heater, shelf, orders, actions, stats,
                now, pending, ncalls, last, returned, harness_vars>>

\* One call of a quantity operation on the food item f with the argument
\* `amount`; `res` is what the operation did.
QuantityCall(op, f, amount, res) ==
    /\ food_items' = [food_items EXCEPT ![f] = res.item]
    /\ model_last' = [op |-> op, food_item |-> f, amount |-> amount,
                      raised |-> res.raised, result |-> "", pre |-> food_items]
    /\ UNCHANGED order_items
    /\ UNCHANGED service_vars
    /\ ProgramUnchanged

UpdateQuantity ==
    \E f \in FoodIds, new_quantity \in Amounts :
        QuantityCall("update_quantity", f, new_quantity,
                     update_quantity(food_items[f], new_quantity, now))

ConsumeQuantity ==
    \E f \in FoodIds, amount \in Amounts :
        QuantityCall("consume_quantity", f, amount,
                     consume_quantity(food_items[f], amount, now))

AddQuantity ==
    \E f \in FoodIds, amount \in Amounts :
        QuantityCall("add_quantity", f, amount,
                     add_quantity(food_items[f], amount, now))

\* Order.add_item; the estimated preparation time it recomputes is not
\* read by any operation modelled here.
AddItem ==
    /\ Len(order_items) < MaxItems
    /\ \E f \in FoodIds, quantity \in OrderQuantities :
          /\ order_items' = Append(order_items, OrderItem(f, quantity))
          /\ model_last' = [op |-> "add_item", food_item |-> f, amount |-> quantity,
                            raised |-> FALSE, result |-> "", pre |-> food_items]
    /\ UNCHANGED food_items
    /\ UNCHANGED service_vars
    /\ ProgramUnchanged

RemoveItem ==
    /\ \E f \in FoodIds :
          LET res == remove_item(order_items, f)
          IN  /\ order_items' = res.items
              /\ model_last' = [op |-> "remove_item", food_item |-> f,
                                amount |-> Num(0), raised |-> FALSE, result |-> res.result,
                                pre |-> food_items]
    /\ UNCHANGED food_items
    /\ UNCHANGED service_vars
    /\ ProgramUnchanged

CanBePrepared ==
    /\ model_last' = [op |-> "can_be_prepared", food_item |-> "",
                      amount |-> Num(0), raised |-> FALSE,
                      result |-> IF can_be_prepared(order_items, food_items)
                                 THEN "True" ELSE "False",
                      pre |-> food_items]
    /\ UNCHANGED <<food_items, order_items>>
    /\ UNCHANGED service_vars
    /\ ProgramUnchanged

ModelsNext ==
    \/ UpdateQuantity
    \/ ConsumeQuantity
    \/ AddQuantity
    \/ AddItem
    \/ RemoveItem
    \/ CanBePrepared

Models == ModelsInit /\ [][ModelsNext]_vars

(* --------------------------- KitchenService --------------------------- *)

\* OrderStatus.value
OrderStatuses ==
    {"pending", "in_preparation", "ready", "out_for_delivery", "delivered",
     "cancelled"}

\* An Order of the service: its items, which refer to the food items of the
\* inventory, and its status.
ServiceOrder(items, status) == [items |-> items, status |-> status]

\* The loop of create_order over the requested items, from item i on:
\* whether every food item is in the inventory with current_quantity not
\* below the quantity asked for.
RECURSIVE items_available_from(_, _, _)
items_available_from(items, inventory, i) ==
    IF i > Len(items) THEN TRUE
    ELSE IF items[i].food_item \notin DOMAIN inventory THEN FALSE
    ELSE IF Lt(inventory[items[i].food_item].current_quantity, items[i].quantity)
         THEN FALSE
         ELSE items_available_from(items, inventory, i + 1)

\* KitchenService.create_order: None and no change, or the order stored in
\* self.orders with the status PENDING.
create_order(svc_orders, inventory, items) ==
    IF ~items_available_from(items, inventory, 1) THEN [result |-> "None", orders |-> svc_orders]
    ELSE IF items = <<>> THEN [result |-> "None", orders |-> svc_orders]
    ELSE [result |-> "Order",
          orders |-> Append(svc_orders, ServiceOrder(items, "pending"))]

\* KitchenService._consume_inventory, the loop from item i on: the first
\* consume_quantity that raises ends the loop with the earlier items
\* consumed.
RECURSIVE consume_inventory_from(_, _, _, _)
consume_inventory_from(items, inventory, i, t) ==
    IF i > Len(items) THEN [raised |-> FALSE, inventory |-> inventory]
    ELSE LET f == items[i].food_item
             res == consume_quantity(inventory[f], items[i].quantity, t)
         IN  IF res.raised THEN [raised |-> TRUE, inventory |-> inventory]
             ELSE consume_inventory_from(items, [inventory EXCEPT ![f] = res.item],
                                         i + 1, t)

\* KitchenService._consume_inventory
consume_inventory(items, inventory, t) == consume_inventory_from(items, inventory, 1, t)

\* KitchenService.update_order_status for the order at position k of
\* self.orders (k = 0 stands for an id the service does not hold).  `saved`
\* tells whether _save_orders was reached.
update_order_status(svc_orders, inventory, k, new_status, t) ==
    IF k \notin 1..Len(svc_orders)
    THEN [result |-> "False", raised |-> FALSE, saved |-> FALSE,
          orders |-> svc_orders, inventory |-> inventory]
    ELSE LET old_status == svc_orders[k].status
             updated == [svc_orders EXCEPT ![k].status = new_status]
         IN  IF old_status = "in_preparation" /\ new_status = "ready"
             THEN LET c == consume_inventory(svc_orders[k].items, inventory, t)
                  IN  IF c.raised
                      THEN [result |-> "ValueError", raised |-> TRUE, saved |-> FALSE,
                            orders |-> updated, inventory |-> c.inventory]
                      ELSE [result |-> "True", raised |-> FALSE, saved |-> TRUE,
                            orders |-> updated, inventory |-> c.inventory]
             ELSE [result |-> "True", raised |-> FALSE, saved |-> TRUE,
                   orders |-> updated, inventory |-> inventory]

\* The item lists asked of create_order: one that takes all of f1, one that
\* takes f2 and then all of f1, one beyond the stock, and none.
ItemLists ==
    { << OrderItem("f1", Num(2)) >>,
      << OrderItem("f2", Num(1)), OrderItem("f1", Num(2)) >>,
      << OrderItem("f1", Num(MaxQuantity)) >>,
      << >> }

\* The statuses asked of update_order_status.
NewStatuses == {"in_preparation", "ready", "cancelled"}

\* A service with two food items of quantity 2 in its inventory and no
\* order.
ServiceInit ==
    /\ heap = EmptyKitchen.heap
    /\ cooler = EmptyKitchen.cooler
    /\ heater = EmptyKitchen.heater
    /\ shelf = EmptyKitchen.shelf
    /\ orders = EmptyKitchen.orders
    /\ actions = EmptyKitchen.actions
    /\ stats = EmptyKitchen.stats
    /\ now = 0
    /\ pending = {}
    /\ ncalls = 0
    /\ last = [call |-> NoCall, result |-> "", pre |-> EmptyKitchen]
    /\ returned = [held |-> FALSE, shared |-> FALSE, items |-> <<>>]
    /\ Constructed("MockChallengeServer", <<>>)
    /\ food_items = [f \in FoodIds |-> FoodItem(Num(2), Num(MaxQuantity))]
    /\ order_items = <<>>
    /\ model_last = NoModelCall
    /\ NoService

CreateOrder ==
    /\ Len(service_orders) < MaxOrders
    /\ \E items \in ItemLists :
          LET res == create_order(service_orders, food_items, items)
          IN  /\ service_orders' = res.orders
              /\ orders_file' = IF res.result = "Order" THEN res.orders ELSE orders_file
              /\ service_last' = [op |-> "create_order", order |-> 0, new_status |-> "",
                                  raised |-> FALSE, result |-> res.result,
                                  pre_orders |-> service_orders,
                                  pre_inventory |-> food_items]
    /\ UNCHANGED <<food_items, order_items, model_last>>
    /\ ProgramUnchanged

UpdateOrderStatus ==
    /\ \E k \in 0..MaxOrders, new_status \in NewStatuses :
          LET res == update_order_status(service_orders, food_items, k, new_status, now)
          IN  /\ service_orders' = res.orders
              /\ food_items' = res.inventory
              /\ orders_file' = IF res.saved THEN res.orders ELSE orders_file
              /\ service_last' = [op |-> "update_order_status", order |-> k,
                                  new_status |-> new_status, raised |-> res.raised,
                                  result |-> res.result,
                                  pre_orders |-> service_orders,
                                  pre_inventory |-> food_items]
    /\ UNCHANGED <<order_items, model_last>>
    /\ ProgramUnchanged

ServiceNext ==
    \/ CreateOrder
    \/ UpdateOrderStatus

Service == ServiceInit /\ [][ServiceNext]_vars

(* ------------------------------ claims -------------------------------- *)

Range(s) == {s[i] : i \in 1..Len(s)}

\* Whether some zone of the kitchen K holds an order with this id.
InZones(K, id) ==
    \E r \in Range(K.cooler) \cup Range(K.heater) \cup Range(K.shelf) : K.heap[r].id = id

\* The ledger positions of the entries of one id with a kind among `kinds`.
Entries(id, kinds) ==
    {i \in 1..Len(actions) : actions[i].order_id = id /\ actions[i].action_type \in kinds}

LedgerIds == {actions[i].order_id : i \in 1..Len(actions)}

\* Every order admitted so far had a positive freshness and an id that no
\* earlier order had: the run holds no malformed input.
WellFormedRun ==
    /\ \A r \in 1..Len(heap) : heap[r].freshness > 0
    /\ \A r, q \in 1..Len(heap) : heap[r].id = heap[q].id => r = q

\* The last call to leave the lock was this operation.
Did(op) == last.call.op = op

\* C1: no zone ever exceeds its capacity: cooler at most 6, heater at most
\* 6, shelf at most 12, for every interleaving of the three operations.
C1_CapacityInvariant ==
    /\ Len(cooler) <= 6
    /\ Len(heater) <= 6
    /\ Len(shelf) <= 12

\* A place_order found every zone full and admitted its order.
C1_Witness ==
    /\ Did("place_order")
    /\ last.result = "True"
    /\ Len(last.pre.cooler) = 6
    /\ Len(last.pre.heater) = 6
    /\ Len(last.pre.shelf) = 12
    /\ Len(shelf) = 12

\* C2: every id has one PLACE entry, at most one terminating entry (PICKUP
\* or DISCARD), and no entry after its terminating entry.  Stated for the
\* runs without malformed input, so that a violation is not owed to a
\* reused id or a non-positive freshness.
C2_PlaceOnceTerminateOnce ==
    WellFormedRun
    => \A id \in LedgerIds :
          /\ Cardinality(Entries(id, {"place"})) = 1
          /\ Cardinality(Entries(id, {"pickup", "discard"})) <= 1
          /\ \A t \in Entries(id, {"pickup", "discard"}) :
                \A i \in (t + 1)..Len(actions) : actions[i].order_id # id

\* C3: pickup_order of an id that no zone holds returns None and changes
\* nothing: zones, index, statistics and ledger are as the call found them.
\* Stated for the runs without malformed input.
C3_PickupOfAbsentIsNoOp ==
    (WellFormedRun /\ Did("pickup_order") /\ ~InZones(last.pre, last.call.order_id))
    => /\ last.result = "None"
       /\ Self = last.pre

\* C4: the timestamps of the ledger never decrease in append order.
\* Stated for the runs without malformed input.
C4_TimestampsNonDecreasing ==
    WellFormedRun =>
    \A i \in 1..(Len(actions) - 1) : actions[i].timestamp <= actions[i + 1].timestamp

\* C5: place_order of an id that is not stored, with a positive freshness,
\* returns True in every reachable storage state.
C5_PlaceAlwaysAdmits ==
    ( /\ Did("place_order")
      /\ last.call.freshness > 0
      /\ ~InZones(last.pre, last.call.order_id)
      /\ last.call.order_id \notin DOMAIN last.pre.orders )
    => last.result = "True"

\* The precondition of C6: the order's ideal zone (cooler for COLD, heater
\* for HOT) held 6 orders and the shelf was empty when place_order ran.
C6_IdealFullShelfEmpty ==
    /\ Did("place_order")
    /\ Len(last.pre.shelf) = 0
    /\ \/ last.call.temperature = "cold" /\ Len(last.pre.cooler) = 6
       \/ last.call.temperature = "hot" /\ Len(last.pre.heater) = 6

C7_MalformedPlaceRejected ==
    ( /\ Did("place_order")
      /\ \/ InZones(last.pre, last.call.order_id)
         \/ last.call.freshness <= 0 )
    => /\ last.result # "True"
       /\ Self = last.pre

\* C8: no order id occupies more than one slot across the three zones.
C8_UniqueResidency ==
    LET slots == cooler \o heater \o shelf
    IN  \A i, j \in 1..Len(slots) : heap[slots[i]].id = heap[slots[j]].id => i = j

\* Whether the order is in the zone that matches its temperature.
InIdealZone(order) ==
    \/ order.temperature = "hot" /\ order.storage_location = "heater"
    \/ order.temperature = "cold" /\ order.storage_location = "cooler"
    \/ order.temperature = "room" /\ order.storage_location = "shelf"

\* C9: a stored order in its ideal zone is fresh at t exactly when
\* t - stored_at < freshness; only a HOT or COLD order on the shelf has the
\* halved lifetime.
C9_IdealZoneNormalRate ==
    \A r \in Range(cooler) \cup Range(heater) \cup Range(shelf) :
        \A t \in heap[r].stored_at..MaxTime :
            is_fresh(heap[r], t) <=>
                IF InIdealZone(heap[r])
                THEN t - heap[r].stored_at < heap[r].freshness
                ELSE 2 * (t - heap[r].stored_at) < heap[r].freshness

\* The case of C10: the pickup_order of a COLD order of freshness 10 that
\* was put on the shelf at t = 0 and is still there.
C10_Case ==
    /\ Did("pickup_order")
    /\ last.call.order_id \in DOMAIN last.pre.orders
    /\ LET r == last.pre.orders[last.call.order_id]
           o == last.pre.heap[r]
       IN  /\ o.temperature = "cold"
           /\ o.freshness = 10
           /\ o.stored_at = 0
           /\ o.storage_location = "shelf"
           /\ r \in Range(last.pre.shelf)

C10_Delivered ==
    /\ last.result = "Order"
    /\ actions = Append(last.pre.actions,
                        [timestamp |-> last.call.current_time,
                         order_id |-> last.call.order_id,
                         action_type |-> "pickup", target |-> "shelf"])

C10_Expired ==
    /\ last.result = "None"
    /\ actions = Append(last.pre.actions,
                        [timestamp |-> last.call.current_time,
                         order_id |-> last.call.order_id,
                         action_type |-> "discard", target |-> "shelf"])

\* C10, as claimed: the pickup at t = 5 succeeds and the pickup at t = 6
\* fails.
C10_PickupAt5Succeeds ==
    C10_Case => /\ last.call.current_time = 5 => C10_Delivered
                /\ last.call.current_time = 6 => C10_Expired

\* C10, amended: the pickup succeeds up to t = 4 and fails from t = 5 on
\* (at t = 5 the doubled age equals the freshness, and fresh is strict).
C10_PickupAt4Succeeds ==
    C10_Case => /\ last.call.current_time <= 4 => C10_Delivered
                /\ last.call.current_time >= 5 => C10_Expired

\* The order of C10 was placed while the cooler was full and its pickup
\* read the clock at 5.
C10_Witness ==
    /\ C10_Case
    /\ last.call.current_time = 5
    /\ Len(last.pre.cooler) = 6
    /\ last.call.order_id = "n1"

\* The remaining life of an order at t, as the freshness rule states it:
\* the budget minus the age in the ideal zone, the budget minus twice the
\* age for a HOT or COLD order on the shelf.
RemainingLife(order, t) ==
    IF InIdealZone(order)
    THEN order.freshness - (t - order.stored_at)
    ELSE order.freshness - 2 * (t - order.stored_at)

\* The order object that the index of the kitchen K holds for this id.
Indexed(K, id) == K.heap[K.orders[id]]

\* The last call was a pickup_order that appended a PICKUP entry.
DeliveredNow ==
    /\ Did("pickup_order")
    /\ Len(actions) = Len(last.pre.actions) + 1
    /\ actions[Len(actions)].action_type = "pickup"

\* C11: no PICKUP entry is appended for an order whose remaining life at
\* the timestamp of the entry is zero or negative, for any interleaving of
\* placements, pickups and sweeps.
C11_NoDeliveryAfterExpiry ==
    DeliveredNow
    => RemainingLife(Indexed(last.pre, last.call.order_id),
                     actions[Len(actions)].timestamp) > 0

\* The zone that matches a temperature, and the capacity of a zone.
IdealZone(temperature) ==
    CASE temperature = "hot" -> "heater"
      [] temperature = "cold" -> "cooler"
      [] temperature = "room" -> "shelf"

Capacity(zone) ==
    CASE zone = "heater" -> HeaterCapacity
      [] zone = "cooler" -> CoolerCapacity
      [] zone = "shelf" -> ShelfCapacity

Entry(timestamp, order_id, action_type, target) ==
    [timestamp |-> timestamp, order_id |-> order_id,
     action_type |-> action_type, target |-> target]

\* The ledger entries of one id, in ledger order, as kinds.
KindsOf(K, id) ==
    LET Mine(e) == e.order_id = id
        mine == SelectSeq(K.actions, Mine)
    IN  [i \in 1..Len(mine) |-> mine[i].action_type]

\* A place_order ran while the ideal zone of its order had a free slot.
C12_FastPathCase ==
    /\ Did("place_order")
    /\ Len(last.pre[IdealZone(last.call.temperature)])
          < Capacity(IdealZone(last.call.temperature))

\* A pickup_order ran at the clock reading of the place_order that had just
\* put the order, well formed, into its ideal zone: the PLACE entry of the
\* order is the last entry of the ledger and the only entry of its id.
C12_RoundTripCase ==
    /\ Did("pickup_order")
    /\ last.call.order_id \in DOMAIN last.pre.orders
    /\ LET id == last.call.order_id
           o == Indexed(last.pre, id)
           A == last.pre.actions
       IN  /\ o.freshness > 0
           /\ InIdealZone(o)
           /\ o.stored_at = last.call.current_time
           /\ A # <<>>
           /\ A[Len(A)] = Entry(o.placed_at, id, "place", o.storage_location)
           /\ KindsOf(last.pre, id) = <<"place">>

\* C12: a place_order whose ideal zone has a free slot returns True, puts
\* the order at the end of that zone and appends exactly one PLACE naming
\* the zone; an immediate pickup_order of that order returns it, removes it
\* from the zone again, leaves the other zones alone and appends exactly
\* one PICKUP naming the same zone, so that the entries of the id are PLACE
\* then PICKUP.
C12_FastPathRoundTrip ==
    /\ C12_FastPathCase
       => LET z == IdealZone(last.call.temperature)
              r == Len(last.pre.heap) + 1
          IN  /\ last.result = "True"
              /\ Self[z] = Append(last.pre[z], r)
              /\ heap[r].id = last.call.order_id
              /\ heap[r].storage_location = z
              /\ \A y \in {"cooler", "heater", "shelf"} \ {z} : Self[y] = last.pre[y]
              /\ actions = Append(last.pre.actions,
                                  Entry(last.call.current_time, last.call.order_id,
                                        "place", z))
    /\ C12_RoundTripCase
       => LET id == last.call.order_id
              z == Indexed(last.pre, id).storage_location
          IN  /\ last.result = "Order"
              /\ Len(Self[z]) = Len(last.pre[z]) - 1
              /\ ~InZones(Self, id)
              /\ \A y \in {"cooler", "heater", "shelf"} \ {z} : Self[y] = last.pre[y]
              /\ actions = Append(last.pre.actions,
                                  Entry(last.call.current_time, id, "pickup", z))
              /\ KindsOf(Self, id) = <<"place", "pickup">>

\* A HOT order went into a heater with room and was picked up at once.
C12_Witness ==
    /\ C12_RoundTripCase
    /\ last.call.order_id = "n1"
    /\ Indexed(last.pre, "n1").storage_location = "heater"
    /\ last.result = "Order"

\* The order object created for this id (one, in a well-formed run).
Placed(K, id) ==
    K.heap[CHOOSE r \in 1..Len(K.heap) : K.heap[r].id = id]

\* A pickup_order fired for an order that had been placed, had not been
\* picked up, and had no remaining life at the clock reading of the pickup.
\* Stated for the runs without malformed input.
C13_Case ==
    /\ WellFormedRun
    /\ Did("pickup_order")
    /\ \E r \in 1..Len(last.pre.heap) : last.pre.heap[r].id = last.call.order_id
    /\ "pickup" \notin Range(KindsOf(last.pre, last.call.order_id))
    /\ RemainingLife(Placed(last.pre, last.call.order_id), last.call.current_time) <= 0

\* C13: when an order is no longer fresh as its pickup fires, pickup_order
\* returns None and the ledger has no PICKUP of the id; whether the sweeper
\* or the pickup found the order first, the ledger has exactly one DISCARD
\* of the id, naming the zone of the order, and the order is in no zone and
\* not in the index.
C13_ExpiredPickupDiscardsOnce ==
    C13_Case
    => LET id == last.call.order_id
       IN  /\ last.result = "None"
           /\ Entries(id, {"pickup"}) = {}
           /\ Cardinality(Entries(id, {"discard"})) = 1
           /\ \A i \in Entries(id, {"discard"}) :
                  actions[i].target = Placed(Self, id).storage_location
           /\ ~InZones(Self, id)
           /\ id \notin DOMAIN orders

\* The ledger entries that the last call appended.
Appended == SubSeq(actions, Len(last.pre.actions) + 1, Len(actions))

\* The shelf references of the kitchen K to HOT (resp. COLD) orders.
Shelved(K, temperature) ==
    {r \in Range(K.shelf) : K.heap[r].temperature = temperature}

\* A well-formed HOT order was placed after a pickup had freed one slot of
\* the full heater, while the shelf held one order, a HOT one.
C14_Case ==
    /\ Did("place_order")
    /\ last.call.temperature = "hot"
    /\ last.call.freshness > 0
    /\ ~InZones(last.pre, last.call.order_id)
    /\ Len(last.pre.heater) = HeaterCapacity - 1
    /\ Len(last.pre.shelf) = 1
    /\ Shelved(last.pre, "hot") = Range(last.pre.shelf)
    /\ last.pre.actions # <<>>
    /\ LET e == last.pre.actions[Len(last.pre.actions)]
       IN  e.action_type = "pickup" /\ e.target = "heater"

\* C14: with the heater full and one HOT order on the shelf, after the
\* pickup of one heater order the placement of another HOT order appends a
\* MOVE of the shelved order to the heater, and that order ends in the
\* heater.
C14_MoveOnSpaceFreed ==
    C14_Case
    => \A r \in Shelved(last.pre, "hot") :
          /\ \E e \in Range(Appended) :
                 e.order_id = heap[r].id /\ e.action_type = "move" /\ e.target = "heater"
          /\ r \in Range(heater)
          /\ heap[r].storage_location = "heater"

\* Whether a shelf resident of the kitchen K could move to its ideal zone:
\* a HOT one while the heater has a free slot, a COLD one while the cooler
\* has one.
CanRelocate(K) ==
    \/ Shelved(K, "hot") # {} /\ Len(K.heater) < HeaterCapacity
    \/ Shelved(K, "cold") # {} /\ Len(K.cooler) < CoolerCapacity

\* A well-formed order met its ideal zone full and the shelf full.
TotalPressure ==
    /\ Did("place_order")
    /\ last.call.freshness > 0
    /\ ~InZones(last.pre, last.call.order_id)
    /\ Len(last.pre[IdealZone(last.call.temperature)])
          = Capacity(IdealZone(last.call.temperature))
    /\ Len(last.pre.shelf) = ShelfCapacity

\* C15: when the ideal zone of the incoming order and the shelf are full
\* but a shelf resident can move to its own ideal zone, place_order appends
\* a MOVE of a resident and then PLACE(shelf) for the new order, and no
\* DISCARD.  Stated for the runs without malformed input.
C15_RelocateBeforeDiscard ==
    (WellFormedRun /\ TotalPressure /\ CanRelocate(last.pre))
    => /\ Len(Appended) = 2
       /\ Appended[1].action_type = "move"
       /\ Appended[1].order_id \in {last.pre.heap[r].id : r \in Range(last.pre.shelf)}
       /\ Appended[2] = Entry(last.call.current_time, last.call.order_id,
                              "place", "shelf")
       /\ \A e \in Range(Appended) : e.action_type # "discard"

\* A HOT (resp. COLD) order was placed while the heater (resp. cooler) held
\* 6 orders and the shelf had a free slot.
C16_Case ==
    /\ Did("place_order")
    /\ last.call.temperature \in {"hot", "cold"}
    /\ Len(last.pre[IdealZone(last.call.temperature)])
          = Capacity(IdealZone(last.call.temperature))
    /\ Len(last.pre.shelf) < ShelfCapacity

C17_DiscardUnderPressure ==
    (TotalPressure /\ ~CanRelocate(last.pre))
    => /\ last.result = "True"
       /\ \E i \in 1..Len(last.pre.shelf) :
             /\ shelf = Append(Pop(last.pre.shelf, i), Len(last.pre.heap) + 1)
             /\ Len(Appended) = 2
             /\ Appended[1].order_id = last.pre.heap[last.pre.shelf[i]].id
             /\ Appended[1].action_type = "discard"
             /\ Appended[1].target = "shelf"
       /\ Appended[2] = Entry(last.call.current_time, last.call.order_id,
                              "place", "shelf")
       /\ Len(shelf) = ShelfCapacity
       /\ cooler = last.pre.cooler
       /\ heater = last.pre.heater

\* The DISCARD entries of a sweep at t for the orders of a zone of the
\* kitchen K that have no remaining life at t, in zone order.
SweepEntries(K, zone, t) ==
    LET Gone(r) == RemainingLife(K.heap[r], t) <= 0
        gone == SelectSeq(K[zone], Gone)
    IN  [i \in 1..Len(gone) |-> Entry(t, K.heap[gone[i]].id, "discard", zone)]

\* C18: cleanup_expired_orders at t removes from every zone and from the
\* index exactly the orders that are not fresh at t (no remaining life),
\* appends one DISCARD per removed order naming its zone, and leaves the
\* fresh orders in their zones with their fields unchanged.  Stated for the
\* runs without malformed input.
C18_SweepRemovesExactlyExpired ==
    (WellFormedRun /\ Did("cleanup_expired_orders"))
    => LET t == last.call.current_time
           Fresh(r) == RemainingLife(last.pre.heap[r], t) > 0
       IN  /\ \A z \in {"cooler", "heater", "shelf"} :
                  Self[z] = SelectSeq(last.pre[z], Fresh)
           /\ DOMAIN orders = {id \in DOMAIN last.pre.orders : Fresh(last.pre.orders[id])}
           /\ \A id \in DOMAIN orders : orders[id] = last.pre.orders[id]
           /\ Appended = SweepEntries(last.pre, "cooler", t)
                           \o SweepEntries(last.pre, "heater", t)
                           \o SweepEntries(last.pre, "shelf", t)
           /\ heap = last.pre.heap

\* C19: the ledger follows the order in which the calls hold the lock.
\* last.pre.actions holds the entries of every call that returned before
\* the last call acquired the lock; they all precede, in their order, the
\* entries of the last call, which are the contiguous rest of the ledger.
C19_LedgerFollowsCallOrder ==
    /\ Len(last.pre.actions) <= Len(actions)
    /\ \A i \in 1..Len(last.pre.actions) : actions[i] = last.pre.actions[i]

\* A place_order read the clock before another call did, got the lock
\* after that call had returned, and appended its DISCARD and PLACE behind
\* the entry of that call.
C19_Witness ==
    /\ Did("place_order")
    /\ Len(Appended) = 2
    /\ last.pre.actions # <<>>
    /\ last.pre.actions[Len(last.pre.actions)].timestamp > last.call.current_time
    /\ last.pre.actions[Len(last.pre.actions)].action_type = "pickup"

\* What the caller reads in the list that get_actions_ledger gave it.
ListOf(v) == IF v.shared THEN actions ELSE v.items

\* C20: the ledger is append-only: every step leaves the previous ledger as
\* a prefix of the new one; and a list returned by get_actions_ledger reads,
\* after any later operation, as it read when it was returned.
C20_LedgerAppendOnly ==
    /\ [][ /\ Len(actions) <= Len(actions')
           /\ \A i \in 1..Len(actions) : actions'[i] = actions[i] ]_vars
    /\ [](returned.held => ListOf(returned) = returned.items)

\* The ledger has grown by two entries of one call since get_actions_ledger
\* returned.
C20_Witness ==
    /\ returned.held
    /\ Len(ListOf(returned)) + 2 = Len(actions)
    /\ Len(Appended) = 2

\* The remaining life, at t, of the shelf order that a move takes, before
\* the move and after it; m is what the move returned for the kitchen K.
LifeAcrossMove(K, m, temperature, t) ==
    LET r == K.shelf[FirstOnShelf(K, temperature)]
    IN  [before |-> RemainingLife(K.heap[r], t), after |-> RemainingLife(m.K.heap[r], t)]

\* C21: a move from the shelf to the ideal zone preserves the remaining
\* life of the moved order: counted at the double rate of the shelf right
\* before the move, it equals the life counted at the normal rate of the
\* ideal zone right after it.  Stated of _move_from_shelf_to_heater and
\* _move_from_shelf_to_cooler applied, at any clock reading to come, to
\* every kitchen the callers reach.
C21_MovePreservesRemainingLife ==
    \A t \in now..MaxTime :
        LET mh == move_from_shelf_to_heater(Self, t)
            mc == move_from_shelf_to_cooler(Self, t)
        IN  /\ mh.ok => LifeAcrossMove(Self, mh, "hot", t).before
                           = LifeAcrossMove(Self, mh, "hot", t).after
            /\ mc.ok => LifeAcrossMove(Self, mc, "cold", t).before
                           = LifeAcrossMove(Self, mc, "cold", t).after

\* The ids of the PLACE entries of the ledger, in ledger order: one per
\* place_order that returned True.
AdmittedIds ==
    LET IsPlace(e) == e.action_type = "place"
        placed == SelectSeq(actions, IsPlace)
    IN  [i \in 1..Len(placed) |-> placed[i].order_id]

\* C22: the harness starts one pickup thread for each order whose
\* place_order returned True and for no other; _final_cleanup runs only
\* when every pickup thread has finished; the ledger is submitted at most
\* once, only after that final sweep and with every entry the sweep left,
\* and exactly once when start() returns.
C22_HarnessOrdering ==
    /\ [k \in 1..Len(pickup_threads) |-> pickup_threads[k].order_id] = AdmittedIds
    /\ final_swept => \A k \in 1..Len(pickup_threads) :
                         pickup_threads[k].state = "finished"
    /\ Len(submitted) <= 1
    /\ submitted # <<>> => final_swept
    /\ start_pc = "submit" => final_swept /\ submitted = <<>>
    /\ start_pc = "done" => Len(submitted) = 1

\* start() has returned after two admitted orders, the second of which
\* expired and was discarded before the ledger was submitted.
C22_Witness ==
    /\ start_pc = "done"
    /\ Len(pickup_threads) = 2
    /\ \A k \in 1..2 : pickup_threads[k].called
    /\ \E i \in 1..Len(submitted[1].actions) :
          submitted[1].actions[i].action_type = "discard"

\* Every id with a PLACE entry in the ledger `ledger` has a PICKUP or a
\* DISCARD entry in it.
AllTerminated(ledger) ==
    \A i \in 1..Len(ledger) :
        ledger[i].action_type = "place"
        => \E j \in 1..Len(ledger) :
              /\ ledger[j].order_id = ledger[i].order_id
              /\ ledger[j].action_type \in {"pickup", "discard"}

\* C23: in a run in which stop() is never called and the threads are
\* scheduled fairly, start() eventually submits the ledger; at the
\* submission the three zones are empty and every id with a PLACE entry has
\* a PICKUP or DISCARD entry in the submitted ledger.
C23_HarnessCompletes ==
    /\ <>(stop_called \/ submitted # <<>>)
    /\ []((~stop_called /\ submitted # <<>>)
          => /\ cooler = <<>>
             /\ heater = <<>>
             /\ shelf = <<>>
             /\ AllTerminated(submitted[1].actions))

\* stop() is never called, the ledger has been submitted, and it records an
\* order that was picked up and an order that was discarded.
C23_Witness ==
    /\ ~stop_called
    /\ submitted # <<>>
    /\ \E e \in Range(submitted[1].actions) : e.action_type = "pickup"
    /\ \E e \in Range(submitted[1].actions) : e.action_type = "discard"

\* C24: a pickup thread that was started for an admitted order has, once it
\* has ended, called pickup_order for its id, whether or not stop() was
\* called meanwhile; and when start() submits, the order of every pickup
\* thread has a pickup or discard entry.
C24_PickupsNeverCancelled ==
    /\ \A k \in 1..Len(pickup_threads) :
          pickup_threads[k].state = "finished" => pickup_threads[k].called
    /\ submitted # <<>> =>
          \A k \in 1..Len(pickup_threads) :
             \E e \in Range(submitted[1].actions) :
                /\ e.order_id = pickup_threads[k].order_id
                /\ e.action_type \in {"pickup", "discard"}

\* C25: when start() has finished, with the ledger submitted, the harness
\* has set running to False.
C25_CooperativeShutdown ==
    start_pc = "done" => ~running

\* Record i of the stream is one the spec calls valid: a known temperature,
\* a positive freshness, an id no earlier record of the stream carries.
ValidRecord(i) ==
    /\ server_orders[i].temperature \in {"hot", "cold", "room"}
    /\ server_orders[i].freshness > 0
    /\ \A j \in 1..(i - 1) : server_orders[j].id # server_orders[i].id

\* How many valid records of the stream carry the id.
ValidWithId(id) ==
    Cardinality({j \in 1..Len(server_orders) :
                    ValidRecord(j) /\ server_orders[j].id = id})

\* C26: no record of the stream makes start() raise; and a record with an
\* unknown temperature, a repeated id or a non-positive freshness gets no
\* place entry and no pickup thread (an id has no more place entries and no
\* more pickup threads than valid records).
C26_InvalidRecordsDropped ==
    /\ start_pc = "raised" => submitted # <<>>
    /\ \A i \in 1..Len(server_orders) :
          LET id == server_orders[i].id IN
          /\ Cardinality({k \in 1..Len(pickup_threads) :
                             pickup_threads[k].order_id = id}) <= ValidWithId(id)
          /\ Cardinality({n \in 1..Len(actions) :
                             /\ actions[n].order_id = id
                             /\ actions[n].action_type = "place"}) <= ValidWithId(id)

\* C27: the harness exits with status 0 only after a submission that
\* succeeded; and when start() has ended after a submission that failed,
\* three submissions have been attempted and the exit status is 1.
C27_SubmitRetry ==
    /\ exit_status = "0" =>
          /\ submitted # <<>>
          /\ submitted[Len(submitted)].outcome = "success"
    /\ ( /\ start_pc \in {"done", "raised"}
         /\ submitted # <<>>
         /\ submitted[Len(submitted)].outcome # "success" )
       => Len(submitted) = 3 /\ exit_status = "1"

\* A run over the stream a (hot), b (cold) in which every clock reading was
\* 0, both pickup delays were 0, stop() was not called and the ledger has
\* been submitted.
FrozenRun ==
    /\ server_orders = << Desc("a", "hot", 10), Desc("b", "cold", 2) >>
    /\ now = 0
    /\ ~stop_called
    /\ submitted # <<>>
    /\ \A k \in 1..Len(pickup_threads) : pickup_threads[k].wake_at = 0

\* The ledger of the frozen run in which the pickup threads ran after the
\* placement loop, in the order in which they were started.
FrozenLedger ==
    << Entry(0, "a", "place", "heater"), Entry(0, "b", "place", "cooler"),
       Entry(0, "a", "pickup", "heater"), Entry(0, "b", "pickup", "cooler") >>

\* C28: two runs with the same stream, the same clock readings and the same
\* pickup delays submit the same ledger, entry for entry, whatever the
\* scheduling of the threads: every frozen run submits the ledger that one
\* of them submits.
C28_Determinism ==
    FrozenRun => submitted[1].actions = FrozenLedger

\* The last call was `op`, made on a food item.
DidOn(op) == model_last.op = op

\* The food item of the last call, before it and after it.
Before == model_last.pre[model_last.food_item]

After == food_items[model_last.food_item]

\* C29: after any sequence of update_quantity, consume_quantity and
\* add_quantity every current_quantity >= 0 is true; a call with a negative
\* amount, a consume_quantity of more than is available and an add_quantity
\* beyond max_quantity raise ValueError; a call that raised left the food
\* items as they were; and after an add_quantity that returned,
\* current_quantity > max_quantity is false.
C29_QuantityOperations ==
    /\ \A f \in DOMAIN food_items : Ge(food_items[f].current_quantity, Num(0))
    /\ \A op \in {"update_quantity", "consume_quantity", "add_quantity"} :
          DidOn(op) =>
            /\ Lt(model_last.amount, Num(0)) => model_last.raised
            /\ model_last.raised => food_items = model_last.pre
    /\ ( DidOn("consume_quantity")
         /\ Gt(model_last.amount, Before.current_quantity) ) => model_last.raised
    /\ ( DidOn("add_quantity")
         /\ Gt(Plus(Before.current_quantity, model_last.amount), Before.max_quantity) )
       => model_last.raised
    /\ ( DidOn("add_quantity") /\ ~model_last.raised )
       => ~Gt(After.current_quantity, After.max_quantity)

\* current_quantity >= quantity holds for every item of the order.
AllAvailable ==
    \A i \in 1..Len(order_items) :
        Ge(food_items[order_items[i].food_item].current_quantity,
           order_items[i].quantity)

\* C30: can_be_prepared returns False for an order with no items, and for
\* an order with items it returns True exactly when every item's
\* food_item.current_quantity is at least the ordered quantity.
C30_CanBePrepared ==
    model_last.op = "can_be_prepared" =>
        /\ order_items = <<>> => model_last.result = "False"
        /\ order_items # <<>> => (model_last.result = "True" <=> AllAvailable)

\* The last call was a place_order that discarded a shelf order: its first
\* new entry is a DISCARD.
DiscardedNow ==
    /\ Did("place_order")
    /\ Appended # <<>>
    /\ Appended[1].action_type = "discard"

\* The position that the victim of the last place_order had on the shelf.
VictimIndex ==
    CHOOSE i \in 1..Len(last.pre.shelf) :
        shelf = Append(Pop(last.pre.shelf, i), Len(last.pre.heap) + 1)

\* The shelf order at position i before the last call.
ShelfOrder(i) == last.pre.heap[last.pre.shelf[i]]

\* The discard score as the ranking rule states it: 1000 for an order that
\* is not fresh at t, 500 for an order whose ideal zone is not the shelf,
\* and 100 times age over budget at the rate of the order on the shelf.
RankScore(order, t) ==
    LET age == t - order.stored_at
        rate == IF order.temperature \in {"hot", "cold"} THEN 2 ELSE 1
    IN  (IF RemainingLife(order, t) <= 0 THEN 1000 ELSE 0)
        + (IF order.temperature \in {"hot", "cold"} THEN 500 ELSE 0)
        + TruncDiv(age * rate * 100, order.freshness)

\* C31: the victim of a place_order that discards has, at a clock reading
\* of that call, the highest discard score of the shelf; an expired shelf
\* order is chosen before any fresh one, and among fresh shelf orders a HOT
\* or COLD order before any ROOM order.
C31_DiscardRanking ==
    DiscardedNow =>
        \E t \in last.call.current_time..Appended[1].timestamp :
            LET I == 1..Len(last.pre.shelf)
                victim == ShelfOrder(VictimIndex)
                Fresh(o) == RemainingLife(o, t) > 0
            IN  /\ \A j \in I : RankScore(ShelfOrder(j), t) <= RankScore(victim, t)
                /\ Fresh(victim) => \A j \in I : Fresh(ShelfOrder(j))
                /\ (Fresh(victim) /\ victim.temperature = "room")
                      => \A j \in I : Fresh(ShelfOrder(j))
                                         => ShelfOrder(j).temperature = "room"

\* The order ids of the model in lexicographic order, as Python compares
\* strings.
LexOrder ==
    << "a", "b", "c", "c1", "c2", "c3", "c4", "c5", "c6",
       "h1", "h2", "h3", "h4", "h5", "h6", "h7", "n1", "n2",
       "s01", "s02", "s03", "s04", "s05", "s06", "s07", "s08", "s09",
       "s10", "s11", "s12", "x" >>

\* id1 <= id2
LexLeq(id1, id2) ==
    \E i, j \in 1..Len(LexOrder) :
        LexOrder[i] = id1 /\ LexOrder[j] = id2 /\ i <= j

\* C32: the victim of a place_order that discards has the lowest id among
\* the shelf orders that share the highest discard score, wherever they
\* stand on the shelf.
C32_DiscardTieBreak ==
    DiscardedNow =>
        \E t \in last.call.current_time..Appended[1].timestamp :
            LET I == 1..Len(last.pre.shelf)
                victim == ShelfOrder(VictimIndex)
                Top(j) == \A k \in I : discard_score(ShelfOrder(k), t)
                                          <= discard_score(ShelfOrder(j), t)
            IN  /\ Top(VictimIndex)
                /\ \A j \in I : Top(j) => LexLeq(victim.id, ShelfOrder(j).id)

\* C33: no execution relocates an order: the ledger never holds a MOVE
\* entry, orders_moved stays 0, and no step changes the storage_location or
\* the stored_at of an order object.
C33_NoRelocation ==
    /\ [](/\ \A e \in Range(actions) : e.action_type # "move"
          /\ stats.orders_moved = 0)
    /\ [][\A r \in DOMAIN heap :
             /\ r \in DOMAIN heap'
             /\ heap'[r].storage_location = heap[r].storage_location
             /\ heap'[r].stored_at = heap[r].stored_at]_vars

\* A HOT order was placed into the heater that a pickup had reopened, while
\* a HOT order stood on the shelf, and that order stands there still.
C33_Witness ==
    /\ Did("place_order")
    /\ last.call.temperature = "hot"
    /\ last.result = "True"
    /\ Len(last.pre.heater) = HeaterCapacity - 1
    /\ Len(heater) = HeaterCapacity
    /\ \E r \in Range(last.pre.shelf) :
          /\ last.pre.heap[r].temperature = "hot"
          /\ r \in Range(shelf)
          /\ heap[r].storage_location = "shelf"

\* The zone of the kitchen with this name; no zone for another name.
ZoneNamed(name) ==
    CASE name = "cooler" -> cooler
      [] name = "heater" -> heater
      [] name = "shelf"  -> shelf
      [] OTHER -> <<>>

\* C34: outside the lock, the index and the zones agree: the order object
\* of every indexed id stands in the zone its storage_location names and in
\* no other zone, and every order object in a zone is the one the index
\* holds for its id.  Stated for the runs without malformed input, so that
\* a violation is not owed to a reused id or a non-positive freshness.
C34_IndexMatchesZones ==
    WellFormedRun
    => /\ \A id \in DOMAIN orders :
             LET r == orders[id] IN
             /\ r \in Range(ZoneNamed(heap[r].storage_location))
             /\ \A z \in {"cooler", "heater", "shelf"} \ {heap[r].storage_location} :
                   r \notin Range(ZoneNamed(z))
       /\ \A r \in Range(cooler) \cup Range(heater) \cup Range(shelf) :
             /\ heap[r].id \in DOMAIN orders
             /\ orders[heap[r].id] = r

\* C35: in every state orders_placed = orders_picked_up + orders_discarded
\* + the number of orders in cooler, heater and shelf, so that picked up
\* plus discarded never exceeds placed.  Stated for the runs without
\* malformed input.
C35_StatisticsBalance ==
    WellFormedRun
    => /\ stats.orders_placed
            = stats.orders_picked_up + stats.orders_discarded
              + Len(cooler) + Len(heater) + Len(shelf)
       /\ stats.orders_picked_up + stats.orders_discarded <= stats.orders_placed

\* C36: when update_order_status fails in consuming the inventory for a
\* transition from IN_PREPARATION to READY, the status of the order and
\* every quantity of the inventory are as they were before the call.
C36_UpdateStatusAllOrNothing ==
    ( /\ service_last.op = "update_order_status"
      /\ service_last.raised )
    => /\ service_orders = service_last.pre_orders
       /\ \A f \in DOMAIN food_items :
             food_items[f].current_quantity
                = service_last.pre_inventory[f].current_quantity

====
